---- MODULE Spec2Model ----
(***************************************************************************)
(* LifeShield backend (src/main.py): artifact loading at startup, the      *)
(* /health and /predict endpoints, feature reconciliation against the      *)
(* scaler's and the model's schemas, and the risk interpretation.          *)
(*                                                                         *)
(* Probabilities are fixed-point integers in units of 1e-5 (PUnit is 1.0). *)
(* A cell of a DataFrame is a record [kind, v]: kind "num" carries the     *)
(* number v, kind "str" is a string that is no number, kind "nonscalar"    *)
(* is a JSON list or object.                                               *)
(*                                                                         *)
(* predict is an async def without any await: on the event loop a call of  *)
(* it runs to completion, so the handler is one action.  Body parsing and  *)
(* validation by the framework happen before the handler is called, and    *)
(* other requests may run in between.                                      *)
(***************************************************************************)
EXTENDS Integers, Sequences, FiniteSets, TLC

VARIABLES model, scaler, feature_columns, startup, req, prob, metadata

vars == <<model, scaler, feature_columns, startup, req, prob, metadata>>

artifacts == <<model, scaler, feature_columns>>

\* ------------------------------------------------------------------ bounds

\* Largest numeric feature value a request carries.
MaxVal == 1

\* ------------------------------------------------------- program constants

LowThreshold == 30000
HighThreshold == 70000
PUnit == 100000
RoundStep == 10

\* ------------------------------------------------------------------ values

Num(n) == [kind |-> "num", v |-> n]
Str == [kind |-> "str", v |-> 0]
NonScalar == [kind |-> "nonscalar", v |-> 0]
Absent == [kind |-> "absent", v |-> 0]

\* fill_value=0 of reindex
FillValue == Num(0)

Requests == {"r1", "r2"}

\* Keys a request's features mapping may carry: "age" is in the scaler's and
\* the model's schema, "gender" in the model's only, "zip" in neither.
RecordKeys == {"age", "gender", "zip"}

AgeCells == {Absent, Str} \cup {Num(n) : n \in 0..MaxVal}
GenderCells == {Absent, Str} \cup {Num(n) : n \in 0..MaxVal}
ZipCells == {Absent, NonScalar}

\* A JSON object as a Python dict: the keys present, each with its cell.
MakeDict(a, g, z) ==
    LET f == [k \in RecordKeys |->
                 IF k = "age" THEN a ELSE IF k = "gender" THEN g ELSE z]
    IN  [k \in {x \in RecordKeys : f[x].kind # "absent"} |-> f[k]]

EmptyDict == [k \in {} |-> Absent]

\* ------------------------------------------------------------- the globals

NoneObj == [is_none |-> TRUE]

\* What best_model.pkl may hold: a fitted classifier that names its input
\* columns, one fitted on bare arrays (no feature_names_in_), and an object
\* without predict_proba.
ModelFiles ==
    { [is_none |-> FALSE, has_predict_proba |-> TRUE, has_names |-> TRUE,
       feature_names_in_ |-> <<"gender", "age", "bmi">>, n_features_in_ |-> 3,
       intercept |-> 29993],
      [is_none |-> FALSE, has_predict_proba |-> TRUE, has_names |-> FALSE,
       feature_names_in_ |-> <<>>, n_features_in_ |-> 3,
       intercept |-> 69993],
      [is_none |-> FALSE, has_predict_proba |-> FALSE, has_names |-> TRUE,
       feature_names_in_ |-> <<"gender", "age", "bmi">>, n_features_in_ |-> 3,
       intercept |-> 0] }

\* What scaler.pkl may hold: a scaler fitted on a subset of the model's
\* columns, one fitted on bare arrays, and one whose columns include a name
\* ("waist") the model does not have.
ScalerFiles ==
    { [is_none |-> FALSE, has_names |-> TRUE,
       feature_names_in_ |-> <<"bmi", "age">>, n_features_in_ |-> 2, scale |-> 2],
      [is_none |-> FALSE, has_names |-> FALSE,
       feature_names_in_ |-> <<>>, n_features_in_ |-> 3, scale |-> 2],
      [is_none |-> FALSE, has_names |-> TRUE,
       feature_names_in_ |-> <<"age", "waist">>, n_features_in_ |-> 2, scale |-> 2] }

\* What feature_columns.pkl may hold: the list of training columns, or an
\* object that is no list.
FeatureColumnsFiles ==
    { [is_none |-> FALSE, is_list |-> TRUE, names |-> <<"age", "bmi", "gender">>],
      [is_none |-> FALSE, is_list |-> FALSE, names |-> <<>>] }

LoadError == [is_none |-> TRUE, load_error |-> TRUE]

\* ------------------------------------------------------------ DataFrames

\* pd.DataFrame([features]): one row, one column per key of the mapping.
\* Column lookup is by name, so the frame is the mapping itself.
DataFrame(features) == features

HasColumn(df, name) == name \in DOMAIN df

RECURSIVE SeqOfSet(_)
SeqOfSet(S) == IF S = {} THEN <<>>
               ELSE LET x == CHOOSE y \in S : TRUE IN <<x>> \o SeqOfSet(S \ {x})

\* A reindex that fills the missing columns and keeps, after them, the
\* columns of the frame that are not named instead of dropping them.
ReindexKeepingExtras(df, columns) ==
    LET all == columns \o SeqOfSet({k \in DOMAIN df : \A i \in 1..Len(columns) : columns[i] # k})
    IN  [columns |-> all,
         values  |-> [i \in 1..Len(all) |->
                         IF all[i] \in DOMAIN df THEN df[all[i]] ELSE [kind |-> "num", v |-> 0]]]

\* df.reindex(columns=columns, fill_value=0): a frame [columns, values] with
\* exactly the named columns in the given order; a column the frame lacks is
\* filled with 0 and a column that is not named is dropped.
Reindex(df, columns) ==
    [columns |-> columns,
     values  |-> [i \in 1..Len(columns) |->
                     IF HasColumn(df, columns[i]) THEN df[columns[i]]
                     ELSE FillValue]]

IndexOf(seq, x) == CHOOSE i \in 1..Len(seq) : seq[i] = x

InSeq(seq, x) == \E i \in 1..Len(seq) : seq[i] = x

\* final_df[col] = value: pandas overwrites the column when the frame has
\* it and appends a new last column when it has not.
SetColumn(df, col, value) ==
    IF InSeq(df.columns, col)
    THEN [df EXCEPT !.values[IndexOf(df.columns, col)] = value]
    ELSE [columns |-> Append(df.columns, col),
          values  |-> Append(df.values, value)]

\* An overlay by position (final_df.iloc[:, i] = scaled_features[:, i])
\* instead of by column name.
RECURSIVE OverlayByPosition(_, _, _, _)
OverlayByPosition(df, scaler_features, scaled_features, i) ==
    IF i > Len(scaler_features) THEN df
    ELSE OverlayByPosition(
             IF i <= Len(df.values)
             THEN [df EXCEPT !.values[i] = scaled_features[i]]
             ELSE SetColumn(df, scaler_features[i], scaled_features[i]),
             scaler_features, scaled_features, i + 1)

\* for i, col in enumerate(scaler_features): final_df[col] = scaled_features[:, i]
\* from position i on.
RECURSIVE OverlayFrom(_, _, _, _)
OverlayFrom(df, scaler_features, scaled_features, i) ==
    IF i > Len(scaler_features) THEN df
    ELSE OverlayFrom(SetColumn(df, scaler_features[i], scaled_features[i]),
                     scaler_features, scaled_features, i + 1)

Overlay(df, scaler_features, scaled_features) ==
    OverlayFrom(df, scaler_features, scaled_features, 1)

AllNumeric(row) == \A i \in 1..Len(row) : row[i].kind = "num"

\* ------------------------------------------------ the fitted artifacts

\* getattr(artifact, "feature_names_in_", feature_columns)
FeatureNames(artifact, fc) ==
    IF artifact.has_names
    THEN [is_none |-> FALSE, is_list |-> TRUE, names |-> artifact.feature_names_in_]
    ELSE fc

\* scaler.transform raises on a row of the wrong width or with a cell that
\* is no number.
CanTransform(s, row) == Len(row) = s.n_features_in_ /\ AllNumeric(row)

\* The fitted transform of one cell: column i is rescaled by the fitted
\* scale and shifted by its own fitted offset, so no transformed value
\* equals the raw one.
TransformCell(s, x, i) == Num(s.scale * x.v + i + 1)

\* scaler.transform(df_for_scaler): the transformed row, of the same width.
Transform(s, row) == [i \in 1..Len(row) |-> TransformCell(s, row[i], i)]

RECURSIVE SumRow(_, _)
SumRow(row, i) == IF i > Len(row) THEN 0 ELSE row[i].v + SumRow(row, i + 1)

Clamp(x) == IF x < 0 THEN 0 ELSE IF x > PUnit THEN PUnit ELSE x

\* model.predict_proba raises on a matrix whose width is not the width the
\* classifier was fitted on, or that holds a cell that is no number.
CanPredictProba(m, X) == Len(X) = m.n_features_in_ /\ AllNumeric(X)

\* model.predict_proba(X)[0][1]: the fitted classifier is a deterministic
\* function of the row, with values in [0, 1].
PredictProba(m, X) == Clamp(m.intercept + SumRow(X, 1))

\* --------------------------------------------------- risk interpretation

Abs(x) == IF x < 0 THEN 0 - x ELSE x

\* round(x, ndigits) on a fixed-point x, to a multiple of step, ties to even.
Round(x, step) ==
    LET q == x \div step
        r == x % step
    IN  IF 2 * r < step THEN q * step
        ELSE IF 2 * r > step THEN (q + 1) * step
        ELSE IF q % 2 = 0 THEN q * step ELSE (q + 1) * step

\* The bands with the boundaries in the lower band (<= for <).
get_risk_metadata_inclusive(p) ==
    LET band == IF p <= LowThreshold THEN "Low"
                ELSE IF p <= HighThreshold THEN "Moderate"
                ELSE "High"
    IN  [level |-> band,
         confidence |-> (IF p < PUnit \div 2 THEN PUnit \div 2 - p ELSE p - PUnit \div 2) * 2,
         vitality_score |-> (PUnit - p),
         rec |-> band]

\* get_risk_metadata(prob): level and recommendation by band, confidence
\* (units of 1e-5) and vitality_score (units of 1e-3 of a point).
get_risk_metadata(p) ==
    LET band == IF p < LowThreshold THEN "Low"
                ELSE IF p < HighThreshold THEN "Moderate"
                ELSE "High"
    IN  [level |-> band,
         confidence |-> Abs(p - (PUnit \div 2)) * 2,
         vitality_score |-> (PUnit - p),
         rec |-> band]

NoMetadata == [level |-> "", confidence |-> 0, vitality_score |-> 0, rec |-> ""]

\* ---------------------------------------------------------- responses

NoResponse ==
    [status |-> 0, kind |-> "none", risk_probability |-> 0, risk_level |-> "",
     confidence |-> 0, vitality_score |-> 0, recommendation |-> "",
     artifacts_loaded |-> FALSE]

\* raise HTTPException(status_code=..., detail=...)
HTTPException(status_code, detail) ==
    [NoResponse EXCEPT !.status = status_code, !.kind = detail]

\* PredictionResponse(...) with the rounding of the handler; HTTP 200.
PredictionResponse(prediction_proba, meta) ==
    [status |-> 200, kind |-> "prediction",
     risk_probability |-> Round(prediction_proba, RoundStep),
     risk_level |-> meta.level,
     confidence |-> Round(meta.confidence, RoundStep),
     vitality_score |-> Round(meta.vitality_score, RoundStep),
     recommendation |-> meta.rec,
     artifacts_loaded |-> FALSE]

\* A fabricated "safe" prediction in place of the error.
SafeDefaultPrediction == PredictionResponse(0, get_risk_metadata(0))

\* except Exception as e: raise HTTPException(status_code=500, ...)
PredictionFailed == HTTPException(500, "Prediction failed")

\* ------------------------------------------------------ the handlers

\* What one call of predict did, beside its response: whether the scaler
\* and the classifier were invoked, the row given to the scaler, the matrix
\* given to the classifier (final_df.values) and where the call failed.
NoTrace ==
    [reconciler |-> FALSE, scaler_called |-> FALSE, classifier_called |-> FALSE,
     scaler_row |-> <<>>, matrix |-> <<>>, failure |-> "none"]

Outcome(resp, trace) == [resp |-> resp, trace |-> trace]

\* model is not None and scaler is not None and feature_columns is not None
ArtifactsLoaded(m, s, fc) == ~m.is_none /\ ~s.is_none /\ ~fc.is_none

\* health_check()
HealthResponse(m, s, fc) ==
    [NoResponse EXCEPT !.status = 200, !.kind = "healthy",
                       !.artifacts_loaded = ArtifactsLoaded(m, s, fc)]

\* predict(input_data), from the guard on the globals to the response or
\* the HTTPException.
PredictHandler(features, m, s, fc) ==
    IF ~ArtifactsLoaded(m, s, fc)
    THEN Outcome(HTTPException(503, "Model artifacts are not loaded."),
                 [NoTrace EXCEPT !.failure = "unavailable"])
    ELSE
    LET input_df == DataFrame(features)
        scaler_features == FeatureNames(s, fc)
        t1 == [NoTrace EXCEPT !.reconciler = TRUE, !.failure = "reconciliation"]
    IN  IF ~scaler_features.is_list THEN Outcome(PredictionFailed, t1)
        ELSE
        LET df_for_scaler == Reindex(input_df, scaler_features.names)
            t2 == [t1 EXCEPT !.scaler_called = TRUE,
                             !.scaler_row = df_for_scaler.values]
        IN  IF ~CanTransform(s, df_for_scaler.values)
            THEN Outcome(PredictionFailed, t2)
            ELSE
            LET scaled_features == Transform(s, df_for_scaler.values)
                model_features == FeatureNames(m, fc)
            IN  IF ~model_features.is_list THEN Outcome(PredictionFailed, t2)
                ELSE
                LET final_df == Overlay(Reindex(input_df, model_features.names),
                                        scaler_features.names, scaled_features)
                    t3 == [t2 EXCEPT !.failure = "inference"]
                    t4 == [t3 EXCEPT !.classifier_called = TRUE,
                                     !.matrix = final_df.values]
                IN  IF ~m.has_predict_proba THEN Outcome(PredictionFailed, t3)
                    ELSE IF ~CanPredictProba(m, final_df.values)
                    THEN Outcome(PredictionFailed, t4)
                    ELSE
                    LET prediction_proba == PredictProba(m, final_df.values)
                    IN  Outcome(PredictionResponse(prediction_proba,
                                    get_risk_metadata(prediction_proba)),
                                [t4 EXCEPT !.failure = "none"])

\* ------------------------------------------------------ request bodies

NoBody == [path |-> "", has_features |-> FALSE, is_mapping |-> FALSE,
           features |-> EmptyDict]

PredictBodies ==
    { [path |-> "/predict", has_features |-> TRUE, is_mapping |-> TRUE,
       features |-> MakeDict(a, g, z)] :
         a \in AgeCells, g \in GenderCells, z \in ZipCells }
    \cup
    \* {"invalid_key": "data"} and {"features": [1, 2]}
    { [path |-> "/predict", has_features |-> FALSE, is_mapping |-> FALSE,
       features |-> EmptyDict],
      [path |-> "/predict", has_features |-> TRUE, is_mapping |-> FALSE,
       features |-> EmptyDict] }

HealthBody == [NoBody EXCEPT !.path = "/health"]

\* features declared optional, with an empty mapping as its default.
HealthFeaturesOptional(body) == ~body.has_features \/ body.is_mapping

\* HealthFeatures: features is required (Field(...)) and is a Dict[str, Any];
\* its values are Any and are not validated.
HealthFeatures(body) == body.has_features /\ body.is_mapping

\* 422 Unprocessable Entity, from the framework's validation of the body.
ValidationError == HTTPException(422, "Unprocessable Entity")

IdleRequest == [pc |-> "idle", body |-> NoBody, resp |-> NoResponse, trace |-> NoTrace]

\* ------------------------------------------------------------- actions

Init ==
    /\ model = NoneObj
    /\ scaler = NoneObj
    /\ feature_columns = NoneObj
    /\ startup = "init"
    /\ req = [r \in Requests |-> IdleRequest]
    /\ prob = 0
    /\ metadata = NoMetadata

\* The validation of lifespan, on the three loaded objects.
Validated(m, fc) == m.has_predict_proba /\ fc.is_list

\* lifespan, up to its yield: the three loads assign the globals one after
\* the other, then the validation; any exception ends the startup with
\* RuntimeError and leaves the globals as they are.  m, s, f are what the
\* three files hold, or LoadError for a file joblib cannot load.
Lifespan ==
    /\ startup = "init"
    /\ \E m \in ModelFiles \cup {LoadError},
          s \in ScalerFiles \cup {LoadError},
          f \in FeatureColumnsFiles \cup {LoadError} :
            IF m.is_none
            THEN /\ startup' = "failed"
                 /\ UNCHANGED <<model, scaler, feature_columns>>
            ELSE IF s.is_none
            THEN /\ model' = m
                 /\ startup' = "failed"
                 /\ UNCHANGED <<scaler, feature_columns>>
            ELSE IF f.is_none
            THEN /\ model' = m
                 /\ scaler' = s
                 /\ startup' = "failed"
                 /\ UNCHANGED feature_columns
            ELSE /\ model' = m
                 /\ scaler' = s
                 /\ feature_columns' = f
                 /\ startup' = IF Validated(m, f) THEN "ready" ELSE "failed"
    /\ UNCHANGED <<req, prob, metadata>>

\* A request arrives on the ASGI app and the framework parses and validates
\* its body: a /predict body that is no HealthFeatures is answered 422 and
\* the handler is never called.
Request(r) ==
    /\ req[r].pc = "idle"
    /\ \E body \in PredictBodies \cup {HealthBody} :
         req' = [req EXCEPT ![r] =
                    IF body.path = "/predict" /\ ~HealthFeatures(body)
                    THEN [pc |-> "done", body |-> body,
                          resp |-> ValidationError, trace |-> NoTrace]
                    ELSE [pc |-> "validated", body |-> body,
                          resp |-> NoResponse, trace |-> NoTrace]]
    /\ UNCHANGED <<model, scaler, feature_columns, startup, prob, metadata>>

\* GET /health
HealthCheck(r) ==
    /\ req[r].pc = "validated"
    /\ req[r].body.path = "/health"
    /\ req' = [req EXCEPT ![r].pc = "done",
                          ![r].resp = HealthResponse(model, scaler, feature_columns)]
    /\ UNCHANGED <<model, scaler, feature_columns, startup, prob, metadata>>

\* A handler that fits the scaler on the request's row (fit_transform for
\* transform), leaving the refitted scaler in the global.
PredictRefitting(r) ==
    /\ req[r].pc = "validated"
    /\ req[r].body.path = "/predict"
    /\ LET out == PredictHandler(req[r].body.features, model, scaler, feature_columns)
       IN  /\ req' = [req EXCEPT ![r].pc = "done",
                                 ![r].resp = out.resp,
                                 ![r].trace = out.trace]
           /\ scaler' = IF out.trace.scaler_called
                        THEN [scaler EXCEPT !.scale = 1] ELSE scaler
    /\ UNCHANGED <<model, feature_columns, startup, prob, metadata>>

\* POST /predict
Predict(r) ==
    /\ req[r].pc = "validated"
    /\ req[r].body.path = "/predict"
    /\ LET out == PredictHandler(req[r].body.features, model, scaler, feature_columns)
       IN  req' = [req EXCEPT ![r].pc = "done",
                              ![r].resp = out.resp,
                              ![r].trace = out.trace]
    /\ UNCHANGED <<model, scaler, feature_columns, startup, prob, metadata>>

Next ==
    \/ Lifespan
    \/ \E r \in Requests : Request(r)
    \/ \E r \in Requests : HealthCheck(r)
    \/ \E r \in Requests : Predict(r)

Spec == Init /\ [][Next]_vars

\* ------------------------------- the risk interpreter on its own

\* Every probability of [0, 1], at the resolution of the fixed point.
InitRisk ==
    /\ model = NoneObj
    /\ scaler = NoneObj
    /\ feature_columns = NoneObj
    /\ startup = "init"
    /\ req = [r \in Requests |-> IdleRequest]
    /\ prob \in 0..PUnit
    /\ metadata = NoMetadata

GetRiskMetadata ==
    /\ metadata = NoMetadata
    /\ metadata' = get_risk_metadata(prob)
    /\ UNCHANGED <<model, scaler, feature_columns, startup, req, prob>>

NextRisk == GetRiskMetadata

SpecRisk == InitRisk /\ [][NextRisk]_vars

\* ===================================================================
\* Properties
\* ===================================================================

\* A /predict request whose body passed validation and whose handler has run.
Handled(r) ==
    /\ req[r].pc = "done"
    /\ req[r].body.path = "/predict"
    /\ req[r].resp.status # 422

\* The schemas the handler resolves for the loaded artifacts.
scaler_schema == FeatureNames(scaler, feature_columns).names
model_schema == FeatureNames(model, feature_columns).names

RawOrZero(f, n) == IF n \in DOMAIN f THEN f[n] ELSE Num(0)

BandOf(p) == IF p < LowThreshold THEN "Low"
             ELSE IF p < HighThreshold THEN "Moderate" ELSE "High"

\* C1: after a successful startup, the matrix predict passes to the
\* classifier has exactly len(model_schema) columns, whatever the record and
\* the two schemas, so a transformed value of a scaler-only name never
\* becomes a column of it.
C1_MatrixWidthIsModelSchema ==
    \A r \in Requests :
        (startup = "ready" /\ req[r].trace.classifier_called) =>
            Len(req[r].trace.matrix) = Len(model_schema)

\* C2: in the matrix passed to the classifier, the column of every name n of
\* model_schema holds transform_fn(scaler_row)[i] when n is scaler_schema[i],
\* and otherwise the record's value for n, or 0 when the record has no n.
C2_ColumnsTransformedOrRaw ==
    \A r \in Requests :
        req[r].trace.classifier_called =>
            LET f == req[r].body.features
                scaler_row == [i \in 1..Len(scaler_schema) |->
                                  RawOrZero(f, scaler_schema[i])]
                transformed == Transform(scaler, scaler_row)
                matrix == req[r].trace.matrix
            IN  /\ Len(matrix) >= Len(model_schema)
                /\ \A j \in 1..Len(model_schema) :
                      matrix[j] =
                        IF InSeq(scaler_schema, model_schema[j])
                        THEN transformed[IndexOf(scaler_schema, model_schema[j])]
                        ELSE RawOrZero(f, model_schema[j])

\* C2's case: a served prediction for a record with both a scaled column
\* (age) and an unscaled one (gender), under schemas in different orders.
C2_Witness ==
    \E r \in Requests :
        /\ req[r].trace.classifier_called
        /\ req[r].resp.status = 200
        /\ DOMAIN req[r].body.features = {"age", "gender"}
        /\ req[r].body.features["age"] = Num(1)
        /\ req[r].body.features["gender"] = Num(1)
        /\ scaler_schema = <<"bmi", "age">>
        /\ model_schema = <<"gender", "age", "bmi">>

\* C3: with the artifacts loaded and validated, a request whose record holds
\* numbers for a subset of the schema names succeeds, every missing name
\* being 0 in the scaler row and in the model row.
C3_MissingFieldsNeverFail ==
    \A r \in Requests :
        ( /\ Handled(r)
          /\ startup = "ready"
          /\ req[r].trace.failure # "unavailable"
          /\ \A k \in DOMAIN req[r].body.features :
                /\ req[r].body.features[k].kind = "num"
                /\ InSeq(scaler_schema, k) \/ InSeq(model_schema, k) )
        => /\ req[r].resp.status = 200
           /\ Len(req[r].trace.scaler_row) = Len(scaler_schema)
           /\ \A i \in 1..Len(scaler_schema) :
                 scaler_schema[i] \notin DOMAIN req[r].body.features
                    => req[r].trace.scaler_row[i] = Num(0)
           /\ \A j \in 1..Len(model_schema) :
                 ( /\ model_schema[j] \notin DOMAIN req[r].body.features
                   /\ ~InSeq(scaler_schema, model_schema[j]) )
                    => req[r].trace.matrix[j] = Num(0)

\* C4: every failed predict request ends in an error response, never in a
\* prediction, and the status tells the three kinds of failure (artifacts
\* not loaded, reconciliation, classifier) from one another.
C4_StatusDistinguishesFailures ==
    /\ \A r \in Requests :
          (Handled(r) /\ req[r].trace.failure # "none")
             => req[r].resp.kind # "prediction" /\ req[r].resp.status # 200
    /\ \A r1, r2 \in Requests :
          ( /\ Handled(r1) /\ Handled(r2)
            /\ req[r1].trace.failure # "none"
            /\ req[r2].trace.failure # "none"
            /\ req[r1].trace.failure # req[r2].trace.failure )
          => req[r1].resp.status # req[r2].resp.status

\* C4, amended: every failed predict request ends in an error response,
\* never in a prediction; the status is 503 exactly for artifacts not loaded
\* and 500 for a reconciliation failure and for a classifier failure alike.
C4_FailuresAreErrors ==
    \A r \in Requests :
        Handled(r) =>
            /\ (req[r].trace.failure = "none") <=> (req[r].resp.status = 200)
            /\ (req[r].trace.failure = "none") <=> (req[r].resp.kind = "prediction")
            /\ (req[r].trace.failure = "unavailable") <=> (req[r].resp.status = 503)
            /\ (req[r].trace.failure \in {"reconciliation", "inference"})
                  <=> (req[r].resp.status = 500)

\* C4's case: a reconciliation failure and a classifier failure, both
\* answered with the same status.
C4_Witness ==
    \E r1, r2 \in Requests :
        /\ Handled(r1) /\ Handled(r2)
        /\ req[r1].trace.failure = "reconciliation"
        /\ req[r2].trace.failure = "inference"
        /\ req[r1].resp.status = 500
        /\ req[r2].resp.status = 500

\* C5: the three artifacts are all loaded and validated or none is loaded;
\* after a failed startup the globals do not read as loaded (so health
\* reports false and predict answers 503); no predict call reaches the
\* reconciliation before loading and validation have both completed.
C5_StartupAllOrNothing ==
    /\ \/ /\ ArtifactsLoaded(model, scaler, feature_columns)
          /\ Validated(model, feature_columns)
       \/ model.is_none /\ scaler.is_none /\ feature_columns.is_none
    /\ startup = "failed" => ~ArtifactsLoaded(model, scaler, feature_columns)
    /\ \A r \in Requests : req[r].trace.reconciler => startup = "ready"

\* C6: a request that fails shape validation (features missing, features
\* not a mapping, or a value that is no scalar) is answered 422 and the
\* reconciler, the scaler and the classifier are never invoked for it.
C6_InvalidShapeRejected ==
    \A r \in Requests :
        ( /\ req[r].pc = "done"
          /\ req[r].body.path = "/predict"
          /\ \/ ~req[r].body.has_features
             \/ ~req[r].body.is_mapping
             \/ \E k \in DOMAIN req[r].body.features :
                   req[r].body.features[k].kind = "nonscalar" )
        => /\ req[r].resp.status = 422
           /\ ~req[r].trace.reconciler
           /\ ~req[r].trace.scaler_called
           /\ ~req[r].trace.classifier_called

\* C6, amended: a request whose features field is missing or is not a
\* mapping is answered 422 and the reconciler, the scaler and the classifier
\* are never invoked for it; the values of the mapping are not validated, and
\* a request with a features mapping is never answered 422.
C6_MissingOrNonMappingRejected ==
    \A r \in Requests :
        (req[r].pc # "idle" /\ req[r].body.path = "/predict") =>
            IF req[r].body.has_features /\ req[r].body.is_mapping
            THEN req[r].resp.status # 422
            ELSE /\ req[r].pc = "done"
                 /\ req[r].resp.status = 422
                 /\ req[r].trace = NoTrace

\* C6's case: one request without a features field rejected, and one whose
\* mapping holds a non-scalar value served.
C6_Witness ==
    \E r1, r2 \in Requests :
        /\ req[r1].pc = "done"
        /\ req[r1].body.path = "/predict"
        /\ ~req[r1].body.has_features
        /\ req[r1].resp.status = 422
        /\ req[r2].pc = "done"
        /\ "zip" \in DOMAIN req[r2].body.features
        /\ req[r2].body.features["zip"].kind = "nonscalar"
        /\ req[r2].resp.status = 200
        /\ req[r2].trace.classifier_called

\* C7: once lifespan has run, no request changes model, scaler or
\* feature_columns (nor, so, a resolved schema), and the response of every
\* request handled since is the response the handler gives that request
\* alone against the artifacts.
C7_ArtifactsImmutable ==
    /\ [][startup # "init" => UNCHANGED artifacts]_vars
    /\ [](\A r \in Requests :
            ( /\ Handled(r)
              /\ startup # "init"
              /\ \/ req[r].trace.failure # "unavailable"
                 \/ ~ArtifactsLoaded(model, scaler, feature_columns) )
            => /\ req[r].resp =
                    PredictHandler(req[r].body.features,
                                   model, scaler, feature_columns).resp
               /\ req[r].trace =
                    PredictHandler(req[r].body.features,
                                   model, scaler, feature_columns).trace)

\* C7's case: two different requests both served after startup.
C7_Witness ==
    /\ startup = "ready"
    /\ \A r \in Requests : Handled(r) /\ req[r].resp.status = 200
    /\ req["r1"].body.features # req["r2"].body.features
    /\ req["r1"].resp # req["r2"].resp

\* C8: get_risk_metadata returns Low exactly when p < 0.3, Moderate exactly
\* when 0.3 <= p < 0.7 and High exactly when p >= 0.7, for every p of [0, 1].
C8_BandsExact ==
    metadata # NoMetadata =>
        /\ metadata.level \in {"Low", "Moderate", "High"}
        /\ (metadata.level = "Low") <=> (prob < LowThreshold)
        /\ (metadata.level = "Moderate")
              <=> (LowThreshold <= prob /\ prob < HighThreshold)
        /\ (metadata.level = "High") <=> (prob >= HighThreshold)

\* C8's case: a boundary value interpreted, in the upper band.
C8_Witness ==
    /\ prob \in {LowThreshold, HighThreshold}
    /\ metadata # NoMetadata
    /\ metadata.level = (IF prob = LowThreshold THEN "Moderate" ELSE "High")

\* The names of an artifact's resolved schema, as a set.
SchemaNameSet(artifact) ==
    IF ~ArtifactsLoaded(model, scaler, feature_columns) THEN {}
    ELSE LET fn == FeatureNames(artifact, feature_columns)
         IN  IF fn.is_list THEN {fn.names[i] : i \in 1..Len(fn.names)} ELSE {}

\* A record without its fields that are in neither schema.
Strip(f) ==
    [k \in (DOMAIN f) \cap (SchemaNameSet(scaler) \cup SchemaNameSet(model)) |-> f[k]]

\* C9: two records that differ only in fields whose names are in neither
\* schema are reconciled to the same matrix and get the same outcome.
C9_ExtraFieldsIgnored ==
    \A r1, r2 \in Requests :
        ( /\ Handled(r1) /\ Handled(r2)
          /\ (req[r1].trace.failure = "unavailable")
                <=> (req[r2].trace.failure = "unavailable")
          /\ Strip(req[r1].body.features) = Strip(req[r2].body.features) )
        => /\ req[r1].trace.matrix = req[r2].trace.matrix
           /\ req[r1].trace.failure = req[r2].trace.failure
           /\ req[r1].resp = req[r2].resp

\* C9's case: the same record served with and without an unknown field.
C9_Witness ==
    \E r1, r2 \in Requests :
        /\ Handled(r1) /\ Handled(r2)
        /\ req[r1].resp.status = 200
        /\ req[r2].resp.status = 200
        /\ "zip" \in DOMAIN req[r2].body.features
        /\ "zip" \notin DOMAIN req[r1].body.features
        /\ "age" \in DOMAIN req[r1].body.features
        /\ Strip(req[r1].body.features) = Strip(req[r2].body.features)

\* C10: in every PredictionResponse of a successfully started service the
\* risk_level is the band of the returned (rounded) risk_probability.
C10_LevelIsBandOfReturnedProbability ==
    \A r \in Requests :
        (startup = "ready" /\ req[r].resp.kind = "prediction") =>
            req[r].resp.risk_level = BandOf(req[r].resp.risk_probability)

====
